---- MODULE Spec2Model ----
(***************************************************************************)
(* Model of src/src/7dias.py: a batch script that loads a reference table  *)
(* of alert / flood levels and a list of station codes, and then, for each *)
(* station in turn, queries the station inventory (for the display name),  *)
(* queries the 7-day level series, cleans it and saves a chart.            *)
(*                                                                         *)
(* Text (file lines, station codes, names) is a sequence of one-character  *)
(* strings, so that strip() and startswith() are computed as Python does.  *)
(***************************************************************************)
EXTENDS Naturals, Sequences, FiniteSets

VARIABLES
    arq_ref,            \* content of cotas_referencia.txt (input, never written)
    arq_lista,          \* content of lista.txt (input, never written)
    pc,                 \* position of the script
    cotas_ref,          \* the reference DataFrame: index and columns
    lista_estacoes,     \* station codes, in file order
    diretorio_graficos, \* TRUE once Graficos_Saida has been created
    i,                  \* position of the for loop in lista_estacoes
    nome,               \* the module-level variable nome (bound or not)
    df_cota_temp,       \* the module-level variable df_cota_temp
    df_cota,            \* the module-level variable df_cota
    log,                \* entries appended to log_execucao_cotas.txt
    pedidos,            \* HTTP requests issued so far, in order
    salvos,             \* plt.savefig calls so far, in order
    resolvido,          \* did the inventory lookup of iteration i bind nome
    desfecho            \* how the latest series step ended

vars == <<arq_ref, arq_lista, pc, cotas_ref, lista_estacoes, diretorio_graficos,
          i, nome, df_cota_temp, df_cota, log, pedidos, salvos, resolvido,
          desfecho>>

-----------------------------------------------------------------------------
(* Bounds of the model.                                                    *)

\* lines of lista.txt in the run-loop specifications
MaxLinhas == 2
\* lines of lista.txt in the loader specification
MaxLinhasCarga == 2
\* characters of one line (without its newline) in the loader specification
MaxColunas == 2
\* rows of one measurement response in the cleaning specification
MaxRows == 3

-----------------------------------------------------------------------------
(* Text.                                                                   *)

NL == "\n"

\* the characters str.strip() removes, of those that occur in the model
Espacos == {" ", NL}

RECURSIVE lstrip(_)
lstrip(s) == IF s = <<>> THEN s
             ELSE IF Head(s) \in Espacos THEN lstrip(Tail(s)) ELSE s

RECURSIVE rstrip(_)
rstrip(s) == IF s = <<>> THEN s
             ELSE IF s[Len(s)] \in Espacos THEN rstrip(SubSeq(s, 1, Len(s) - 1)) ELSE s

\* str.strip()
strip(s) == rstrip(lstrip(s))

\* str.startswith(c) for a one-character prefix
startswith(s, c) == Len(s) > 0 /\ s[1] = c

\* the filter of the list comprehension, lines 55-59: the line as read
MantemLinha(linha) == strip(linha) # <<>> /\ ~startswith(linha, "#")

\* the list comprehension, lines 55-59
RECURSIVE LerLista(_)
LerLista(linhas) ==
    IF linhas = <<>> THEN <<>>
    ELSE IF MantemLinha(Head(linhas))
         THEN <<strip(Head(linhas))>> \o LerLista(Tail(linhas))
         ELSE LerLista(Tail(linhas))

\* sequences over S of length at most n
SeqAte(S, n) == UNION {[1..k -> S] : k \in 0..n}

-----------------------------------------------------------------------------
(* Inputs: the two files and the answers of the remote service.            *)

\* one line of the log file: level, the step that wrote it, the station it names
\* and the exception detail of the message (<<>> when it has none)
Entrada(nivel, passo, k, cod, detalhe) ==
    [nivel |-> nivel, passo |-> passo, idx |-> k, codigo |-> cod, detalhe |-> detalhe]

\* line contents of lista.txt in the run-loop specifications
ConteudosLaco == {<<"a">>, <<"b">>, <<"#">>, <<>>}

\* line contents of lista.txt in the loader specification
ConteudosCarga == SeqAte({" ", "#", "a"}, MaxColunas)

\* a text file as the lines Python iterates over, each ending in a newline
Arquivos(conteudos, n) ==
    {[tipo |-> "ok", linhas |-> [k \in 1..Len(f) |-> f[k] \o <<NL>>]] :
        f \in SeqAte(conteudos, n)}
    \cup {[tipo |-> t, linhas |-> <<>>] : t \in {"ausente", "ilegivel"}}

\* cotas_referencia.txt: absent, not parseable, or a table with some columns
ArquivosRef ==
    {[tipo |-> t, colunas |-> {}, codigos |-> {}] : t \in {"ausente", "ilegivel"}}
    \cup {[tipo |-> "tabela", colunas |-> c, codigos |-> {<<"a">>}] :
            c \in {{"Codigo", "Alerta", "Inundacao"}, {"Alerta", "Inundacao"},
                   {"Codigo", "Inundacao"}, {"Codigo", "Alerta"}}}

\* the value of a cell of the reference table
ValorRef(cod, coluna) == IF coluna = "Alerta" THEN 150 ELSE 300

\* an exception is <<class, argument>>; <<>> stands for no exception.
\* The classes the statements of the loop body raise, all of them
\* subclasses of Exception
Excecoes == {"ConnectionError", "Timeout", "XMLSyntaxError", "ValueError",
             "KeyError", "NameError", "IndexError", "OSError"}

\* variant: the handlers catch the exceptions of the request only
CapturaSoRequests(e) == e[1] \in {"ConnectionError", "Timeout"}

\* `except Exception` (lines 90 and 168): every one of them is caught
CapturaExcept(e) == e[1] \in Excecoes

\* what requests.get and pd.read_xml raise in the model
FalhasConsulta == {<<"ConnectionError", "">>, <<"Timeout", "">>, <<"XMLSyntaxError", "">>}

\* answers to the HidroInventario request, as read by pd.read_xml
RespostasInventarioCom(falhas) ==
    {[tipo |-> "excecao", exc |-> e, colunas |-> {}, vazio |-> TRUE] : e \in falhas}
    \cup {[tipo |-> "tabela", exc |-> <<>>, colunas |-> c, vazio |-> v] :
            c \in {{"Nome"}, {}}, v \in BOOLEAN}

\* the run-loop specifications let the inventory request fail in one way
RespostasInventarioLaco == RespostasInventarioCom({<<"Timeout", "">>})

RespostasInventario == RespostasInventarioCom(FalhasConsulta)

\* the display name the inventory holds for a station
NomeDe(cod) == <<"N">> \o cod

Ligado(v) == [ligado |-> TRUE, valor |-> v]
NaoLigado == [ligado |-> FALSE, valor |-> <<>>]

\* rows of a DadosHidrometeorologicos answer: DataHora is text ("" when the
\* element is missing, "x" when it is no date), Nivel is <<>> when missing
LinhasBrutas == [DataHora : {"", "d1", "d2", "x"}, Nivel : {<<>>, <<5>>, <<7>>}]

RespostasDadosCom(falhas, incompletas, linhas) ==
    {[tipo |-> "excecao", exc |-> e, colunas |-> {}, linhas |-> <<>>] : e \in falhas}
    \cup {[tipo |-> "tabela", exc |-> <<>>, colunas |-> {"DataHora", "Nivel"}, linhas |-> l] :
            l \in linhas}
    \cup {[tipo |-> "tabela", exc |-> <<>>, colunas |-> c,
            linhas |-> <<[DataHora |-> "d1", Nivel |-> <<5>>]>>] :
            c \in incompletas}

\* answers of the run-loop specifications: one failure of the request, one
\* table without the Nivel column and a few representative tables
RespostasLaco ==
    RespostasDadosCom({<<"XMLSyntaxError", "">>}, {{"DataHora"}},
                      {<<>>,
                       <<[DataHora |-> "d1", Nivel |-> <<>>]>>,
                       <<[DataHora |-> "d2", Nivel |-> <<7>>],
                         [DataHora |-> "d1", Nivel |-> <<5>>]>>})

\* answers of the cleaning specification: every table of at most MaxRows rows
RespostasLimpeza ==
    RespostasDadosCom(FalhasConsulta, {{"DataHora"}, {"Nivel"}}, SeqAte(LinhasBrutas, MaxRows))

-----------------------------------------------------------------------------
(* Cleaning of the series, lines 107-114.                                  *)

\* pd.to_datetime of one value: missing text becomes NaT, written <<>>
ParaDatetime(v) == IF v = "d1" THEN <<1>> ELSE IF v = "d2" THEN <<2>> ELSE <<>>

\* pd.to_datetime raises on text that is no date
DatasValidas(linhas) == \A k \in 1..Len(linhas) : linhas[k].DataHora # "x"

\* line 107: the DataHora column replaced by its conversion
ConverteDatas(linhas) ==
    [k \in 1..Len(linhas) |->
        [DataHora |-> ParaDatetime(linhas[k].DataHora), Nivel |-> linhas[k].Nivel]]

PresenteEmAmbos(r) == r.DataHora # <<>> /\ r.Nivel # <<>>

SoDataPresente(r) == r.DataHora # <<>>

\* variant: dropna(subset=['DataHora'])
dropnaSoData(linhas) == SelectSeq(linhas, SoDataPresente)

\* .dropna(subset=['DataHora', 'Nivel'])
dropna(linhas) == SelectSeq(linhas, PresenteEmAmbos)

\* .rename(columns={'Nivel': 'Cota'}).set_index('DataHora')
rename(linhas) ==
    [k \in 1..Len(linhas) |-> [DataHora |-> linhas[k].DataHora, Cota |-> linhas[k].Nivel]]

Ocorrencias(s, x) == Cardinality({k \in 1..Len(s) : s[k] = x})

Elementos(s) == {s[k] : k \in 1..Len(s)}

\* ascending order of index values, NaT last
MenorOuIgual(a, b) == b = <<>> \/ (a # <<>> /\ a[1] <= b[1])

EmOrdem(s) == \A k \in 1..(Len(s) - 1) : MenorOuIgual(s[k].DataHora, s[k + 1].DataHora)

\* .sort_index(ascending=True): the sort is not stable, so rows with equal
\* timestamps come out in any order
sort_index(s) ==
    {t \in [1..Len(s) -> Elementos(s)] :
        /\ \A x \in Elementos(s) : Ocorrencias(t, x) = Ocorrencias(s, x)
        /\ EmOrdem(t)}

\* variant: the emptiness tests never fire
emptyNunca(df) == FALSE

\* DataFrame.empty
empty(df) == df = <<>>

-----------------------------------------------------------------------------
(* Rendering, lines 122-166.                                               *)

\* line 129: codigo in cotas_ref.index
TemLimiares(cod, ref) == cod \in ref.index

\* the first exception the rendering statements raise, <<>> when none does:
\* .iloc[-1] (line 122) needs a row, ref_data['Alerta'] and
\* ref_data['Inundacao'] (lines 131-132) need their columns, the title
\* (line 145) needs nome to be bound, and drawing or savefig can fail
ExcecaoRender(cod, df, nm, ref, falha_plot) ==
    IF df = <<>> THEN <<"IndexError", "">>
    ELSE IF TemLimiares(cod, ref) /\ "Alerta" \notin ref.columns THEN <<"KeyError", "Alerta">>
    ELSE IF TemLimiares(cod, ref) /\ "Inundacao" \notin ref.columns
    THEN <<"KeyError", "Inundacao">>
    ELSE IF ~nm.ligado THEN <<"NameError", "nome">>
    ELSE IF falha_plot THEN <<"OSError", "">>
    ELSE <<>>

\* lines 135 and 138: the two horizontal lines and their legend labels
LinhasRef(cod) ==
    {[cor |-> "orange", y |-> ValorRef(cod, "Alerta"),
      label |-> <<"Alerta", ValorRef(cod, "Alerta")>>],
     [cor |-> "red", y |-> ValorRef(cod, "Inundacao"),
      label |-> <<"Inundacao", ValorRef(cod, "Inundacao")>>]}

\* the figure that savefig writes
Grafico(k, cod, df, nm, ref) ==
    [idx |-> k,
     arquivo |-> cod \o <<".png">>,
     serie |-> df,
     axhlines |-> IF TemLimiares(cod, ref) THEN LinhasRef(cod) ELSE {},
     legenda |-> TemLimiares(cod, ref),
     titulo |-> <<cod, nm.valor>>,
     ultimo_dado |-> df[Len(df)].Cota,
     data_ultimo_dado |-> df[Len(df)].DataHora]

-----------------------------------------------------------------------------
(* The script.                                                             *)

InitCom(listas, refs) ==
    /\ arq_ref \in refs
    /\ arq_lista \in listas
    /\ pc = "ref"
    /\ cotas_ref = [index |-> {}, columns |-> {}]
    /\ lista_estacoes = <<>>
    /\ diretorio_graficos = FALSE
    /\ i = 0
    /\ nome = NaoLigado
    /\ df_cota_temp = <<>>
    /\ df_cota = <<>>
    /\ log = <<>>
    /\ pedidos = <<>>
    /\ salvos = <<>>
    /\ resolvido = FALSE
    /\ desfecho = "nenhum"

\* lines 39-50: load the reference table
CarregarRef ==
    /\ pc = "ref"
    /\ pc' = "lista"
    /\ IF arq_ref.tipo = "ausente"
       THEN /\ log' = Append(log, Entrada("WARNING", "ref", 0, <<>>, <<>>))
            /\ UNCHANGED cotas_ref
       ELSE IF arq_ref.tipo = "ilegivel"
       THEN /\ log' = Append(log, Entrada("ERROR", "ref", 0, <<>>, <<"ParserError", "">>))
            /\ UNCHANGED cotas_ref
       ELSE IF "Codigo" \notin arq_ref.colunas
       THEN /\ log' = Append(log, Entrada("ERROR", "ref", 0, <<>>, <<"KeyError", "Codigo">>))
            /\ UNCHANGED cotas_ref
       ELSE /\ cotas_ref' = [index |-> arq_ref.codigos,
                             columns |-> arq_ref.colunas \ {"Codigo"}]
            /\ UNCHANGED log
    /\ UNCHANGED <<arq_ref, arq_lista, lista_estacoes, diretorio_graficos, i, nome,
                   df_cota_temp, df_cota, pedidos, salvos, resolvido, desfecho>>

\* variant: the emptiness test of the list never fires
ListaVaziaNunca(l) == FALSE

\* line 64: not lista_estacoes
ListaVazia(l) == l = <<>>

\* lines 53-70: load the station list, leave when there is nothing to do,
\* create the output directory
CarregarLista ==
    /\ pc = "lista"
    /\ IF arq_lista.tipo = "ausente"
       THEN /\ log' = Append(log, Entrada("ERROR", "lista", 0, <<>>, <<>>))
            /\ pc' = "exit"
            /\ UNCHANGED <<lista_estacoes, diretorio_graficos, i>>
       ELSE IF arq_lista.tipo = "ilegivel"
       THEN /\ pc' = "excecao"
            /\ UNCHANGED <<log, lista_estacoes, diretorio_graficos, i>>
       ELSE /\ lista_estacoes' = LerLista(arq_lista.linhas)
            /\ IF ListaVazia(lista_estacoes')
               THEN /\ log' = Append(log, Entrada("ERROR", "lista", 0, <<>>, <<>>))
                    /\ pc' = "exit"
                    /\ UNCHANGED <<diretorio_graficos, i>>
               ELSE /\ diretorio_graficos' = TRUE
                    /\ IF Len(lista_estacoes') > 0
                       THEN pc' = "inventario" /\ i' = 1
                       ELSE pc' = "fim" /\ i' = 0
                    /\ UNCHANGED log
    /\ UNCHANGED <<arq_ref, arq_lista, cotas_ref, nome, df_cota_temp, df_cota,
                   pedidos, salvos, resolvido, desfecho>>

\* the station of the current iteration
codigo == lista_estacoes[i]

\* the for statement, line 75: where control goes after iteration k of n
Proxima(k, n) == IF k < n THEN [pc |-> "inventario", i |-> k + 1]
                 ELSE [pc |-> "fim", i |-> k]

\* variant: break in place of continue
ContinueSai(k, n) == [pc |-> "fim", i |-> k]

\* the continue statements, lines 104 and 118
Continue(k, n) == Proxima(k, n)

\* lines 78-91: the inventory request and the assignment of nome
Inventario(respostas) ==
    /\ pc = "inventario"
    /\ \E r \in respostas :
        LET exc == IF r.tipo = "excecao" THEN r.exc
                   ELSE IF ~r.vazio /\ "Nome" \notin r.colunas THEN <<"KeyError", "Nome">>
                   ELSE <<>>
        IN  /\ pedidos' = Append(pedidos, [tipo |-> "inventario", idx |-> i, codigo |-> codigo])
            /\ IF exc # <<>>
               THEN /\ UNCHANGED nome
                    /\ resolvido' = FALSE
                    /\ IF CapturaExcept(exc)
                       THEN /\ log' = Append(log, Entrada("ERROR", "inventario", i, codigo, exc))
                            /\ pc' = "dados"
                       ELSE /\ pc' = "excecao"
                            /\ UNCHANGED log
               ELSE IF ~r.vazio
               THEN /\ nome' = Ligado(NomeDe(codigo))
                    /\ resolvido' = TRUE
                    /\ pc' = "dados"
                    /\ UNCHANGED log
               ELSE /\ log' = Append(log, Entrada("WARNING", "inventario", i, codigo, <<>>))
                    /\ resolvido' = FALSE
                    /\ pc' = "dados"
                    /\ UNCHANGED nome
    /\ UNCHANGED <<arq_ref, arq_lista, cotas_ref, lista_estacoes, diretorio_graficos, i,
                   df_cota_temp, df_cota, salvos, desfecho>>

\* the end of the series step of one station: what it leaves in the
\* variables, the log entry it writes and where the loop goes
Encerra(entradas, des, temp, df, graficos, destino) ==
    /\ df_cota_temp' = temp
    /\ df_cota' = df
    /\ salvos' = graficos
    /\ desfecho' = des
    /\ log' = log \o entradas
    /\ pc' = destino.pc
    /\ i' = destino.i

\* the logger.warning calls of lines 103 and 117
Aviso == <<Entrada("WARNING", "dados", i, codigo, <<>>)>>

\* an exception inside the try of lines 97-167: lines 168-169 when caught
Levanta(e, des, temp, df) ==
    IF CapturaExcept(e)
    THEN Encerra(<<Entrada("ERROR", "dados", i, codigo, e)>>, des, temp, df, salvos,
                 Proxima(i, Len(lista_estacoes)))
    ELSE Encerra(<<>>, des, temp, df, salvos, [pc |-> "excecao", i |-> i])

\* lines 95-169: the series request, cleaning, rendering and saving
Dados(respostas) ==
    /\ pc = "dados"
    /\ pedidos' = Append(pedidos, [tipo |-> "dados", idx |-> i, codigo |-> codigo])
    /\ \E r \in respostas, falha_plot \in BOOLEAN :
        IF r.tipo = "excecao"
        THEN Levanta(r.exc, "erro_consulta", df_cota_temp, df_cota)
        ELSE IF empty(r.linhas)
        THEN Encerra(Aviso, "vazio", r.linhas, df_cota, salvos,
                     Continue(i, Len(lista_estacoes)))
        ELSE IF "DataHora" \notin r.colunas
        THEN Levanta(<<"KeyError", "DataHora">>, "erro_limpeza", r.linhas, df_cota)
        ELSE IF ~DatasValidas(r.linhas)
        THEN Levanta(<<"ValueError", "DataHora">>, "erro_limpeza", r.linhas, df_cota)
        ELSE IF "Nivel" \notin r.colunas
        THEN Levanta(<<"KeyError", "Nivel">>, "erro_limpeza", ConverteDatas(r.linhas), df_cota)
        ELSE \E df \in sort_index(rename(dropna(ConverteDatas(r.linhas)))) :
            IF empty(df)
            THEN Encerra(Aviso, "vazio_limpo", ConverteDatas(r.linhas), df, salvos,
                         Continue(i, Len(lista_estacoes)))
            ELSE LET e == ExcecaoRender(codigo, df, nome, cotas_ref, falha_plot)
                 IN  IF e # <<>>
                     THEN Levanta(e, "erro_render", ConverteDatas(r.linhas), df)
                     ELSE Encerra(<<>>, "salvo", ConverteDatas(r.linhas), df,
                                  Append(salvos, Grafico(i, codigo, df, nome, cotas_ref)),
                                  Proxima(i, Len(lista_estacoes)))
    /\ UNCHANGED <<arq_ref, arq_lista, cotas_ref, lista_estacoes, diretorio_graficos,
                   nome, resolvido>>

InventarioLaco == Inventario(RespostasInventarioLaco)

InventarioLimpeza == Inventario(RespostasInventario)

DadosLaco == Dados(RespostasLaco)

DadosLimpeza == Dados(RespostasLimpeza)

\* the run loop over a small list file and representative answers
Init == InitCom(Arquivos(ConteudosLaco, MaxLinhas), ArquivosRef)

Next == CarregarRef \/ CarregarLista \/ InventarioLaco \/ DadosLaco

Spec == Init /\ [][Next]_vars

\* every statement of the script returns (the requests have timeouts), so a
\* step that can be taken is taken
FairSpec == Spec /\ WF_vars(Next)

\* the loader over every small list file
InitCarga == InitCom(Arquivos(ConteudosCarga, MaxLinhasCarga), ArquivosRef)

NextCarga == CarregarRef \/ CarregarLista

SpecCarga == InitCarga /\ [][NextCarga]_vars

\* one station and every small measurement answer
InitLimpeza ==
    InitCom({[tipo |-> "ok", linhas |-> <<<<"a", NL>>>>]},
            {r \in ArquivosRef : r.tipo = "ausente" \/ r.colunas = {"Codigo", "Alerta", "Inundacao"}})

NextLimpeza == CarregarRef \/ CarregarLista \/ InventarioLimpeza \/ DadosLimpeza

SpecLimpeza == InitLimpeza /\ [][NextLimpeza]_vars

-----------------------------------------------------------------------------
(* Properties.                                                             *)

UltimoPedido == pedidos[Len(pedidos)]

\* the state right after the series step of a station
AposDados == pedidos # <<>> /\ UltimoPedido.tipo = "dados"

\* the state right after the inventory step of a station
AposInventario == pedidos # <<>> /\ UltimoPedido.tipo = "inventario"

UltimaEntradaE(e) == log # <<>> /\ log[Len(log)] = e

NoLaco == pc \in {"inventario", "dados"}

\* C1: the requests issued are, in order, inventory then series of entry 1,
\* inventory then series of entry 2, ...: one of each per entry of the list,
\* whatever the outcomes, and the run ends only after the last entry.
C1_PedidosEmOrdem ==
    /\ \A k \in 1..Len(pedidos) :
            pedidos[k] = [tipo |-> IF k % 2 = 1 THEN "inventario" ELSE "dados",
                          idx |-> (k + 1) \div 2,
                          codigo |-> lista_estacoes[(k + 1) \div 2]]
    /\ pc = "inventario" => Len(pedidos) + 2 = 2 * i
    /\ pc = "dados" => Len(pedidos) + 1 = 2 * i
    /\ pc = "fim" => Len(pedidos) = 2 * Len(lista_estacoes)
    /\ pc \in {"exit", "excecao"} => pedidos = <<>>

\* two stations, the first failing in both steps, the second rendered
C1_Witness ==
    /\ pc = "fim"
    /\ Len(lista_estacoes) = 2
    /\ Len(pedidos) = 4
    /\ \E k \in 1..Len(log) : log[k].idx = 1 /\ log[k].passo = "dados" /\ log[k].nivel = "ERROR"
    /\ \E k \in 1..Len(log) : log[k].idx = 1 /\ log[k].passo = "inventario"
    /\ \E g \in 1..Len(salvos) : salvos[g].idx = 2

\* C2 (as claimed): a station whose inventory lookup bound no name, whose
\* series has a row left after cleaning, whose thresholds can be read and
\* whose plotting raises nothing gets its chart.
C2_SemNomeAindaRenderiza ==
    (/\ AposDados
     /\ ~resolvido
     /\ desfecho \in {"erro_render", "salvo"}
     /\ ~(desfecho = "erro_render" /\ log[Len(log)].detalhe[1] = "OSError")
     /\ (UltimoPedido.codigo \in cotas_ref.index
            => {"Alerta", "Inundacao"} \subseteq cotas_ref.columns))
    => desfecho = "salvo"

\* C3 (as claimed): the name in the title of a saved chart is the one the
\* station's own inventory lookup bound, or else not a name bound for a
\* station of an earlier iteration.
C3_NomeDaPropriaEstacao ==
    (AposDados /\ desfecho = "salvo") =>
        LET g == salvos[Len(salvos)]
        IN  IF resolvido
            THEN g.titulo = <<lista_estacoes[g.idx], NomeDe(lista_estacoes[g.idx])>>
            ELSE \A k \in 1..(g.idx - 1) :
                    lista_estacoes[k] # lista_estacoes[g.idx]
                        => g.titulo[2] # NomeDe(lista_estacoes[k])

\* C4, the safety part: a step that failed left, as the last log entry, an
\* entry of that step naming the station, and no failure ends the run.
C4_Registrado ==
    /\ (AposInventario /\ ~resolvido) =>
            /\ log # <<>>
            /\ log[Len(log)].passo = "inventario"
            /\ log[Len(log)].idx = UltimoPedido.idx
            /\ log[Len(log)].codigo = lista_estacoes[UltimoPedido.idx]
    /\ (AposDados /\ desfecho \in {"erro_consulta", "erro_limpeza", "erro_render"}) =>
            /\ log # <<>>
            /\ log[Len(log)].passo = "dados"
            /\ log[Len(log)].nivel = "ERROR"
            /\ log[Len(log)].idx = UltimoPedido.idx
            /\ log[Len(log)].codigo = lista_estacoes[UltimoPedido.idx]
    /\ pedidos # <<>> => pc \in {"inventario", "dados", "fim"}

\* C4: every failure of a station's step is logged with the station's code,
\* none ends the run, and a run that entered the loop reaches its normal end.
C4_FalhasIsoladas == [](C4_Registrado) /\ (NoLaco ~> (pc = "fim"))

\* the run ended normally although both steps of both stations failed
C4_Witness ==
    /\ pc = "fim"
    /\ Len(lista_estacoes) = 2
    /\ salvos = <<>>
    /\ Cardinality({k \in 1..Len(log) : log[k].nivel = "ERROR" /\ log[k].idx > 0}) = 4

SemValor(r) == r.DataHora = <<>> \/ r.Nivel = <<>>

ListaInutil ==
    arq_lista.tipo = "ausente" \/ (arq_lista.tipo = "ok" /\ lista_estacoes = <<>>)

\* C6: once the list is loaded, a missing file or an empty list means the
\* script has logged an error and left: no request was issued, no chart saved,
\* and no step remains.
C6_SaidaFatal ==
    (ListaInutil /\ pc \notin {"ref", "lista"}) =>
        /\ pc = "exit"
        /\ UltimaEntradaE(Entrada("ERROR", "lista", 0, <<>>, <<>>))
        /\ pedidos = <<>>
        /\ salvos = <<>>
        /\ ~ENABLED Next

\* a list file of two lines, none of them a station
C6_Witness ==
    /\ pc = "exit"
    /\ arq_lista.tipo = "ok"
    /\ Len(arq_lista.linhas) = 2

RefMalformada ==
    \/ arq_ref.tipo \in {"ausente", "ilegivel"}
    \/ ~({"Codigo", "Alerta", "Inundacao"} \subseteq arq_ref.colunas)

\* C7 (as claimed): with the reference file absent or malformed, loading
\* logs it and leaves the table empty, no chart gets threshold lines and no
\* station fails on the threshold lookup.
C7_RefMalformadaInofensiva ==
    (RefMalformada /\ pc # "ref") =>
        /\ \E k \in 1..Len(log) : log[k].passo = "ref"
        /\ cotas_ref.index = {}
        /\ \A g \in 1..Len(salvos) : salvos[g].axhlines = {}
        /\ \A k \in 1..Len(log) :
                log[k].detalhe \notin {<<"KeyError", "Alerta">>, <<"KeyError", "Inundacao">>}

\* the lines of the file that are neither blank nor start with '#'
LinhasDeEstacao ==
    {k \in 1..Len(arq_lista.linhas) :
        strip(arq_lista.linhas[k]) # <<>> /\ arq_lista.linhas[k][1] # "#"}

\* C8 (as claimed): the loaded list is, in file order, the stripped text of
\* the lines that are neither blank nor start with '#', and so it holds no
\* empty entry and no entry that begins with the comment marker.
C8_SemVaziosNemComentarios ==
    (arq_lista.tipo = "ok" /\ pc \notin {"ref", "lista"}) =>
        /\ Len(lista_estacoes) = Cardinality(LinhasDeEstacao)
        /\ \A k \in LinhasDeEstacao :
                lista_estacoes[Cardinality({m \in LinhasDeEstacao : m <= k})]
                    = strip(arq_lista.linhas[k])
        /\ \A k \in 1..Len(lista_estacoes) :
                lista_estacoes[k] # <<>> /\ lista_estacoes[k][1] # "#"

\* C9: after cleaning, df_cota holds exactly the rows of the table that have
\* both values, none with a missing value, in non-decreasing order of
\* timestamp, and the saved chart's last value is the level of a row with the
\* greatest timestamp.
C9_Limpeza ==
    desfecho \in {"vazio_limpo", "erro_render", "salvo"} =>
        /\ \A k \in 1..Len(df_cota) : df_cota[k].DataHora # <<>> /\ df_cota[k].Cota # <<>>
        /\ \A k \in 1..Len(df_cota), m \in 1..Len(df_cota) :
                k <= m => df_cota[k].DataHora[1] <= df_cota[m].DataHora[1]
        /\ Len(df_cota) = Cardinality({k \in 1..Len(df_cota_temp) : ~SemValor(df_cota_temp[k])})
        /\ \A k \in 1..Len(df_cota_temp) :
                LET x == df_cota_temp[k]
                    y == [DataHora |-> x.DataHora, Cota |-> x.Nivel]
                IN  Cardinality({m \in 1..Len(df_cota) : df_cota[m] = y})
                      = IF SemValor(x) THEN 0
                        ELSE Cardinality({m \in 1..Len(df_cota_temp) : df_cota_temp[m] = x})
        /\ desfecho = "salvo" =>
                LET g == salvos[Len(salvos)]
                IN  /\ \A k \in 1..Len(df_cota_temp) :
                            ~SemValor(df_cota_temp[k]) =>
                                df_cota_temp[k].DataHora[1] <= g.data_ultimo_dado[1]
                    /\ \E k \in 1..Len(df_cota_temp) :
                            /\ df_cota_temp[k].DataHora = g.data_ultimo_dado
                            /\ df_cota_temp[k].Nivel = g.ultimo_dado

\* three rows: the latest first, one without a level, the earliest last
C9_Witness ==
    /\ desfecho = "salvo"
    /\ Len(df_cota_temp) = 3
    /\ df_cota_temp[1] = [DataHora |-> <<2>>, Nivel |-> <<7>>]
    /\ df_cota_temp[2].Nivel = <<>>
    /\ df_cota_temp[3] = [DataHora |-> <<1>>, Nivel |-> <<5>>]
    /\ Len(df_cota) = 2

\* C10 (as claimed): a saved chart has the two labelled reference lines and
\* the legend exactly when the station's code is in the reference table, and
\* a station whose code is in the table does not lose its chart to the
\* threshold lookup.
C10_LinhasSeESoSeNaTabela ==
    /\ \A g \in 1..Len(salvos) :
            LET cod == lista_estacoes[salvos[g].idx]
            IN  IF cod \in cotas_ref.index
                THEN /\ salvos[g].legenda
                     /\ {<<l.y, l.label>> : l \in salvos[g].axhlines}
                            = {<<150, <<"Alerta", 150>>>>, <<300, <<"Inundacao", 300>>>>}
                ELSE salvos[g].axhlines = {} /\ ~salvos[g].legenda
    /\ (AposDados /\ desfecho = "erro_render" /\ UltimoPedido.codigo \in cotas_ref.index) =>
            log[Len(log)].detalhe[1] # "KeyError"

====
